---- MODULE Spec2Model ----
(***************************************************************************)
(* Model of highway_env/envs/highway_env.py: scenario construction, the   *)
(* base (HighwayEnv) and extended (DevHighway) reward evaluators, the      *)
(* termination test and the auxiliary lane-distance query.                 *)
(*                                                                         *)
(* Real numbers are exact rationals <<numerator, denominator>> in lowest   *)
(* terms with a positive denominator.  A zero denominator stands for the   *)
(* non-finite values IEEE arithmetic produces when a numpy scalar is       *)
(* divided by zero: <<1,0>> = +inf, <<-1,0>> = -inf, <<0,0>> = NaN.         *)
(* Floating-point rounding is not modelled.                                *)
(***************************************************************************)
EXTENDS Integers, Sequences, FiniteSets, TLC

\* ------------------------------------------------------------------ bounds
MaxLanes == 2
MaxVehicles == 4
MaxControlled == 3

\* ------------------------------------------------------- exact arithmetic
Abs(i) == IF i < 0 THEN -i ELSE i

Sgn(i) == IF i < 0 THEN -1 ELSE IF i = 0 THEN 0 ELSE 1

RECURSIVE Gcd(_, _)
Gcd(a, b) == IF b = 0 THEN a ELSE Gcd(b, a % b)

\* n / d in lowest terms
Norm(n, d) ==
    IF d = 0 THEN <<Sgn(n), 0>>
    ELSE IF n = 0 THEN <<0, 1>>
    ELSE IF d = 1 THEN <<n, 1>>
    ELSE LET g == Gcd(Abs(n), Abs(d))
         IN  <<Sgn(d) * (n \div g), Abs(d) \div g>>

Q(n, d) == Norm(n, d)

Zero == <<0, 1>>
One == <<1, 1>>
NaN == <<0, 0>>

IsFinite(a) == a[2] # 0

Lcm(a, b) == (a \div Gcd(a, b)) * b

\* float + float
RAdd(a, b) ==
    IF IsFinite(a) /\ IsFinite(b)
    THEN IF a[1] = 0 THEN b
         ELSE IF b[1] = 0 THEN a
         ELSE IF a[2] = b[2] THEN Norm(a[1] + b[1], a[2])
         ELSE LET l == Lcm(a[2], b[2])
              IN  Norm(a[1] * (l \div a[2]) + b[1] * (l \div b[2]), l)
    ELSE IF IsFinite(b) THEN a
    ELSE IF IsFinite(a) THEN b
    ELSE IF a = b THEN a ELSE NaN

RNeg(a) == <<-a[1], a[2]>>

RSub(a, b) == RAdd(a, RNeg(b))

\* float * float; inf * 0 = NaN falls out of the representation
RMul(a, b) ==
    IF IsFinite(a) /\ IsFinite(b)
    THEN IF a = <<1, 1>> THEN b
         ELSE IF b = <<1, 1>> THEN a
         ELSE Norm(a[1] * b[1], a[2] * b[2])
    ELSE <<Sgn(a[1]) * Sgn(b[1]), 0>>

\* numpy float / number: x / 0 is +-inf, 0 / 0 is NaN (a warning, not an exception)
RDiv(a, b) ==
    IF ~IsFinite(a) \/ ~IsFinite(b) THEN NaN
    ELSE IF b[1] = 0 THEN <<Sgn(a[1]), 0>>
    ELSE RMul(a, Norm(b[2], b[1]))

RAbs(a) == <<Abs(a[1]), a[2]>>

\* a <= b; every comparison with NaN is false
RLe(a, b) ==
    IF a = NaN \/ b = NaN THEN FALSE
    ELSE IF ~IsFinite(a) THEN a[1] < 0 \/ a = b
    ELSE IF ~IsFinite(b) THEN b[1] > 0
    ELSE LET l == Lcm(a[2], b[2])
         IN  a[1] * (l \div a[2]) <= b[1] * (l \div b[2])

RLt(a, b) == RLe(a, b) /\ a # b

\* float(bool)
FloatOfBool(b) == IF b THEN One ELSE Zero

None == "None"

\* No _rewards call yet in the episode
NoCall == <<>>

\* ------------------------------------------------------------ configuration
\* dict.update: the keys of u replace or extend those of d
Update(d, u) ==
    [k \in (DOMAIN d) \cup (DOMAIN u) |-> IF k \in DOMAIN u THEN u[k] ELSE d[k]]

\* HighwayEnv.default_config; lanes_count, vehicles_count and
\* controlled_vehicles are always supplied by the user configuration below
HighwayEnv_default_config ==
    [ action              |-> "DiscreteMetaAction",
      initial_lane_id     |-> None,
      collision_reward    |-> Q(-1, 1),
      right_lane_reward   |-> Q(1, 10),
      high_speed_reward   |-> Q(4, 10),
      lane_change_reward  |-> Zero,
      reward_speed_range  |-> <<Q(20, 1), Q(30, 1)>>,
      normalize_reward    |-> TRUE,
      offroad_terminal    |-> FALSE ]

\* DevHighway.default_config
DevHighway_default_config ==
    Update(HighwayEnv_default_config,
           [ action                      |-> "ContinuousAction",
             lane_centering_cost         |-> Q(4, 1),
             lane_centering_reward       |-> Q(1, 100),
             abrupt_steering_penalty     |-> Q(19, 1000),
             abrupt_acceleration_penalty |-> Q(1, 1000),
             right_lane_reward           |-> Q(1, 10),
             high_speed_reward           |-> Q(35, 100),
             offroad_terminal            |-> FALSE ])

Classes == {"HighwayEnv", "HighwayEnvFast", "DevHighway"}

default_config(cls) ==
    IF cls = "DevHighway" THEN DevHighway_default_config ELSE HighwayEnv_default_config

\* config.get(name, 0)
ConfigGet(cfg, name) == IF name \in DOMAIN cfg THEN cfg[name] ELSE Zero

\* User-supplied reward weights: all zero (a degenerate normalization range),
\* and a second set of the default signs
ZeroWeights(cls) ==
    LET base == [ collision_reward |-> Zero, right_lane_reward |-> Zero,
                  high_speed_reward |-> Zero ]
    IN  IF cls = "DevHighway"
        THEN Update(base, [ lane_centering_reward |-> Zero,
                            abrupt_steering_penalty |-> Zero,
                            abrupt_acceleration_penalty |-> Zero ])
        ELSE base

AltWeights(cls) ==
    LET base == [ collision_reward |-> Q(-2, 1), right_lane_reward |-> Q(1, 2),
                  high_speed_reward |-> One ]
    IN  IF cls = "DevHighway"
        THEN Update(base, [ lane_centering_reward |-> Q(1, 4),
                            abrupt_steering_penalty |-> Q(1, 10),
                            abrupt_acceleration_penalty |-> Q(1, 10) ])
        ELSE base

Empty == [k \in {} |-> Zero]

\* The reward-related user configurations an environment is built with
RewardOverrides(cls) ==
    { Empty,
      [normalize_reward |-> FALSE],
      ZeroWeights(cls),
      Update(AltWeights(cls), [offroad_terminal |-> TRUE]) }
    \cup (IF cls = "HighwayEnv" THEN {[action |-> "ContinuousAction"]} ELSE {})

\* ------------------------------------------------------------------- state
VARIABLES
    cls,                    \* the environment class
    config,                 \* self.config
    road,                   \* self.road: [network |-> [graph |-> ...], vehicles |-> <<...>>]
    controlled_vehicles,    \* self.controlled_vehicles: positions in road.vehicles
    vehicle,                \* self.vehicle: the state of the first controlled vehicle
    previous_steering,      \* self.previous_steering (DevHighway only)
    previous_acceleration,  \* self.previous_acceleration (DevHighway only)
    last_call,              \* history: the action of the latest _rewards call of the episode
    ret                     \* what the latest operation returned

vars == <<cls, config, road, controlled_vehicles, vehicle, previous_steering,
          previous_acceleration, last_call, ret>>

\* ------------------------------------------------------ road and vehicles
\* RoadNetwork.straight_road_network: one segment "0" -> "1" of `lanes` lanes
straight_road_network(lanes) ==
    [graph |-> [from \in {"0"} |-> [to \in {"1"} |-> [i \in 1..lanes |-> [id |-> i - 1]]]]]

\* network.all_side_lanes(lane_index): every lane of the segment of lane_index
all_side_lanes(network, lane_index) ==
    [i \in 1..Len(network.graph[lane_index[1]][lane_index[2]]) |->
        <<lane_index[1], lane_index[2], i - 1>>]

\* action_type.vehicle_class: DiscreteMetaAction drives an MDPVehicle
\* (a ControlledVehicle), ContinuousAction a plain Vehicle
vehicle_class(cfg) ==
    IF cfg.action = "DiscreteMetaAction" THEN "ControlledVehicle" ELSE "Vehicle"

\* utils.near_split(x, num_bins): num_bins sizes that differ by at most one
\* and sum to x, the larger ones first
near_split(x, num_bins) ==
    LET quotient == x \div num_bins
        remainder == x % num_bins
    IN  [i \in 1..num_bins |-> IF i <= remainder THEN quotient + 1 ELSE quotient]

\* Faulty variant: the inner loop stops one vehicle short
RECURSIVE add_others_short(_, _)
add_others_short(vehicles, others) ==
    IF others <= 1 THEN vehicles
    ELSE add_others_short(Append(vehicles, [kind |-> "other", check_collisions |-> TRUE]),
                           others - 1)

\* the inner loop of _create_vehicles: `others` background vehicles appended
RECURSIVE add_others(_, _)
add_others(vehicles, others) ==
    IF others <= 0 THEN vehicles
    ELSE add_others(Append(vehicles, [kind |-> "other", check_collisions |-> TRUE]),
                    others - 1)

\* the outer loop of _create_vehicles over other_per_controlled[i..]:
\* one controlled vehicle, then its share of the background vehicles
RECURSIVE create_vehicles_loop(_, _, _)
create_vehicles_loop(other_per_controlled, i, acc) ==
    IF i > Len(other_per_controlled) THEN acc
    ELSE LET withEgo == Append(acc.vehicles,
                               [kind |-> "controlled", check_collisions |-> TRUE])
         IN  create_vehicles_loop(
                 other_per_controlled, i + 1,
                 [controlled |-> Append(acc.controlled, Len(withEgo)),
                  vehicles   |-> add_others(withEgo, other_per_controlled[i])])

\* HighwayEnv._create_vehicles on a fresh road
HighwayEnv_create_vehicles(cfg) ==
    create_vehicles_loop(near_split(cfg.vehicles_count, cfg.controlled_vehicles), 1,
                         [controlled |-> <<>>, vehicles |-> <<>>])

\* HighwayEnvFast._create_vehicles: collision checks off for the uncontrolled
HighwayEnvFast_create_vehicles(cfg) ==
    LET made == HighwayEnv_create_vehicles(cfg)
        isControlled(p) == \E j \in 1..Len(made.controlled) : made.controlled[j] = p
    IN  [made EXCEPT !.vehicles =
            [p \in 1..Len(made.vehicles) |->
                IF isControlled(p) THEN made.vehicles[p]
                ELSE [made.vehicles[p] EXCEPT !.check_collisions = FALSE]]]

create_vehicles(c, cfg) ==
    IF c = "HighwayEnvFast" THEN HighwayEnvFast_create_vehicles(cfg)
    ELSE HighwayEnv_create_vehicles(cfg)

\* The controlled vehicle right after creation: Vehicle.create_random puts it
\* on lane `lane` at speed 25, aligned with the lane, and the controllable
\* vehicle is built at the same pose
Headings == {"0", "pi/3"}
Speeds == {Q(25, 1), Q(40, 1)}
Laterals == {Zero, Q(1, 2)}

new_vehicle(cfg, lane) ==
    [ class             |-> vehicle_class(cfg),
      crashed           |-> FALSE,
      on_road           |-> TRUE,
      lane_index        |-> <<"0", "1", lane>>,
      target_lane_index |-> IF vehicle_class(cfg) = "ControlledVehicle"
                            THEN <<"0", "1", lane>> ELSE None,
      speed             |-> Q(25, 1),
      heading           |-> "0",
      lateral           |-> Zero ]

\* np.cos(heading)
Cos(heading) == IF heading = "0" THEN One ELSE Q(1, 2)

\* ----------------------------------------------------------------- rewards
\* utils.lmap(v, x, y): linear map of v from the range x to the range y
lmap(v, x, y) ==
    RAdd(y[1], RDiv(RMul(RSub(v, x[1]), RSub(y[2], y[1])), RSub(x[2], x[1])))

\* np.clip(a, lo, hi)
Clip(a, lo, hi) == IF RLt(a, lo) THEN lo ELSE IF RLt(hi, a) THEN hi ELSE a

Max(a, b) == IF a >= b THEN a ELSE b

\* lane = target_lane_index[2] of a ControlledVehicle, lane_index[2] otherwise
\* (tuples count from 1 here)
lane_of(veh) ==
    IF veh.class = "ControlledVehicle" THEN veh.target_lane_index[3]
    ELSE veh.lane_index[3]

\* Faulty variant: the denominator without its floor of 1
right_lane_unguarded(rd, veh) ==
    Q(lane_of(veh), Len(all_side_lanes(rd.network, veh.lane_index)) - 1)

\* lane / max(len(neighbours) - 1, 1)
right_lane(rd, veh) ==
    Q(lane_of(veh), Max(Len(all_side_lanes(rd.network, veh.lane_index)) - 1, 1))

\* np.clip(lmap(speed * cos(heading), reward_speed_range, [0, 1]), 0, 1)
high_speed(cfg, veh) ==
    Clip(lmap(RMul(veh.speed, Cos(veh.heading)), cfg.reward_speed_range, <<Zero, One>>),
         Zero, One)

\* HighwayEnv._rewards
HighwayEnv_rewards(cfg, rd, veh, action) ==
    [ collision_reward  |-> FloatOfBool(veh.crashed),
      right_lane_reward |-> right_lane(rd, veh),
      high_speed_reward |-> high_speed(cfg, veh),
      on_road_reward    |-> FloatOfBool(veh.on_road) ]

\* Faulty variant: the two fields are left as they were
DevHighway_rewards_stale(cfg, rd, veh, action, prev_steering, prev_acceleration) ==
    LET steering_change_penalty ==
            RMul(cfg.abrupt_steering_penalty, RAbs(RSub(action[2], prev_steering)))
        acceleration_change_penalty ==
            RMul(cfg.abrupt_acceleration_penalty, RAbs(RSub(action[1], prev_acceleration)))
    IN  [ rewards |->
            [ collision_reward            |-> IF veh.crashed THEN Q(-1, 1) ELSE Zero,
              right_lane_reward           |-> right_lane(rd, veh),
              high_speed_reward           |-> high_speed(cfg, veh),
              on_road_reward              |-> FloatOfBool(veh.on_road),
              lane_centering_reward       |->
                  RDiv(One, RAdd(One, RMul(cfg.lane_centering_cost,
                                           RMul(veh.lateral, veh.lateral)))),
              abrupt_steering_penalty     |-> RNeg(steering_change_penalty),
              abrupt_acceleration_penalty |-> RNeg(acceleration_change_penalty) ],
          previous_steering     |-> prev_steering,
          previous_acceleration |-> prev_acceleration ]

\* DevHighway._rewards: the components, and the two fields it overwrites.
\* action = <<acceleration, steering>> (action[0], action[1] in the source)
DevHighway_rewards(cfg, rd, veh, action, prev_steering, prev_acceleration) ==
    LET steering_change_penalty ==
            RMul(cfg.abrupt_steering_penalty, RAbs(RSub(action[2], prev_steering)))
        acceleration_change_penalty ==
            RMul(cfg.abrupt_acceleration_penalty, RAbs(RSub(action[1], prev_acceleration)))
    IN  [ rewards |->
            [ collision_reward            |-> IF veh.crashed THEN Q(-1, 1) ELSE Zero,
              right_lane_reward           |-> right_lane(rd, veh),
              high_speed_reward           |-> high_speed(cfg, veh),
              on_road_reward              |-> FloatOfBool(veh.on_road),
              lane_centering_reward       |->
                  RDiv(One, RAdd(One, RMul(cfg.lane_centering_cost,
                                           RMul(veh.lateral, veh.lateral)))),
              abrupt_steering_penalty     |-> RNeg(steering_change_penalty),
              abrupt_acceleration_penalty |-> RNeg(acceleration_change_penalty) ],
          previous_steering     |-> action[2],
          previous_acceleration |-> action[1] ]

\* sum(self.config.get(name, 0) * reward for name, reward in rewards.items())
RECURSIVE weighted_sum(_, _, _)
weighted_sum(cfg, rewards, names) ==
    IF names = {} THEN Zero
    ELSE LET name == CHOOSE n \in names : TRUE
         IN  RAdd(RMul(ConfigGet(cfg, name), rewards[name]),
                  weighted_sum(cfg, rewards, names \ {name}))

\* The normalization range of HighwayEnv._reward
HighwayEnv_range(cfg) ==
    <<cfg.collision_reward, RAdd(cfg.high_speed_reward, cfg.right_lane_reward)>>

\* The normalization range of DevHighway._reward
DevHighway_range(cfg) ==
    <<cfg.collision_reward,
      RAdd(RAdd(RAdd(RAdd(cfg.high_speed_reward, cfg.right_lane_reward),
                     cfg.lane_centering_reward),
                cfg.abrupt_steering_penalty),
           cfg.abrupt_acceleration_penalty)>>

\* Faulty variant: the result is not multiplied by on_road_reward
HighwayEnv_aggregate_ungated(cfg, rewards) ==
    LET reward == weighted_sum(cfg, rewards, DOMAIN rewards)
    IN  IF cfg.normalize_reward
        THEN lmap(reward, HighwayEnv_range(cfg), <<Zero, One>>)
        ELSE reward

\* The tail of HighwayEnv._reward, given the components _rewards returned
HighwayEnv_aggregate(cfg, rewards) ==
    LET reward == weighted_sum(cfg, rewards, DOMAIN rewards)
        normalized ==
            IF cfg.normalize_reward
            THEN lmap(reward, HighwayEnv_range(cfg), <<Zero, One>>)
            ELSE reward
    IN  RMul(normalized, rewards.on_road_reward)

\* The tail of DevHighway._reward, given the components _rewards returned
DevHighway_aggregate(cfg, rewards) ==
    LET reward == weighted_sum(cfg, rewards, DOMAIN rewards)
        normalized ==
            IF cfg.normalize_reward
            THEN lmap(reward, DevHighway_range(cfg), <<Zero, One>>)
            ELSE reward
    IN  RMul(normalized, rewards.on_road_reward)

\* ------------------------------------------------------------- termination
\* Faulty variant: (crashed or offroad_terminal) and not on_road
is_terminated_misgrouped(cfg, veh) ==
    IF (IF veh.crashed THEN veh.crashed ELSE cfg.offroad_terminal)
    THEN ~veh.on_road
    ELSE FALSE

\* HighwayEnv._is_terminated: Python's `a or b and not c`, short-circuiting
HighwayEnv_is_terminated(cfg, veh) ==
    IF veh.crashed THEN veh.crashed
    ELSE IF cfg.offroad_terminal THEN ~veh.on_road
    ELSE cfg.offroad_terminal

\* ----------------------------------------------------------- lane distance
\* lane.distance_with_heading(position, heading): an opaque scalar per lane
distance_with_heading(lane, veh) == <<"distance", lane.id, veh.lane_index[3], veh.heading>>

\* The loops of DevHighway.lane_distance over a segment's lanes
RECURSIVE lane_distance_lanes(_, _, _, _, _, _)
lane_distance_lanes(from, to, lanes, i, veh, acc) ==
    IF i > Len(lanes) THEN acc
    ELSE lane_distance_lanes(from, to, lanes, i + 1, veh,
             [distances |-> Append(acc.distances, distance_with_heading(lanes[i], veh)),
              indexes   |-> Append(acc.indexes, <<from, to, i - 1>>)])

RECURSIVE lane_distance_segments(_, _, _, _)
lane_distance_segments(graph, pairs, veh, acc) ==
    IF pairs = {} THEN acc
    ELSE LET p == CHOOSE q \in pairs : TRUE
         IN  lane_distance_segments(graph, pairs \ {p}, veh,
                 lane_distance_lanes(p[1], p[2], graph[p[1]][p[2]], 1, veh, acc))

\* DevHighway.lane_distance: the objects its return statement hands back, in
\* order; it returns `distances` alone
lane_distance(rd, veh) ==
    LET graph == rd.network.graph
        pairs == {<<from, to>> \in (DOMAIN graph) \X {"0", "1"} : to \in DOMAIN graph[from]}
        built == lane_distance_segments(graph, pairs, veh,
                                        [distances |-> <<>>, indexes |-> <<>>])
    IN  <<built.distances>>

\* ------------------------------------------------------------------ inputs
\* Continuous actions <<acceleration, steering>>; a discrete action is a label
ContinuousActions == {<<One, Q(1, 2)>>, <<Q(-1, 1), Q(-1, 2)>>}

Actions(cfg) == IF cfg.action = "ContinuousAction" THEN ContinuousActions ELSE {"IDLE"}

Extended == cls = "DevHighway"

\* What one simulation advance can do to the controlled vehicle: one of its
\* attributes changes (a crash is permanent); every combination of attribute
\* values is reached over several steps.  The lateral offset is followed only
\* where it is read, through lane.local_coordinates in DevHighway._rewards
Neighbouring(index, lanes) ==
    {<<index[1], index[2], k>> : k \in {j \in 0..(lanes - 1) : j - index[3] \in {-1, 1}}}

Advance(c, veh, lanes) ==
    {veh, [veh EXCEPT !.crashed = TRUE], [veh EXCEPT !.on_road = ~@]}
    \cup {[veh EXCEPT !.lane_index = l] : l \in Neighbouring(veh.lane_index, lanes)}
    \cup (IF veh.class = "ControlledVehicle"
          THEN {[veh EXCEPT !.target_lane_index = l] :
                    l \in Neighbouring(veh.target_lane_index, lanes)}
          ELSE {})
    \cup {[veh EXCEPT !.speed = s] : s \in Speeds}
    \cup {[veh EXCEPT !.heading = h] : h \in Headings}
    \cup (IF c = "DevHighway"
          THEN {[veh EXCEPT !.lateral = l] : l \in Laterals}
          ELSE {})

\* self._rewards(action), dispatched on the class
rewards_call(c, cfg, rd, veh, action, prev_steering, prev_acceleration) ==
    IF c = "DevHighway"
    THEN DevHighway_rewards(cfg, rd, veh, action, prev_steering, prev_acceleration)
    ELSE [ rewards               |-> HighwayEnv_rewards(cfg, rd, veh, action),
           previous_steering     |-> prev_steering,
           previous_acceleration |-> prev_acceleration ]

aggregate(c, cfg, rewards) ==
    IF c = "DevHighway" THEN DevHighway_aggregate(cfg, rewards)
    ELSE HighwayEnv_aggregate(cfg, rewards)

\* ----------------------------------------------------------------- actions
\* _reset: _create_road, _create_vehicles and, in DevHighway, the episode record
AfterReset(lane) ==
    LET made == create_vehicles(cls, config)
    IN  /\ road' = [ network  |-> straight_road_network(config.lanes_count),
                     vehicles |-> made.vehicles ]
        /\ controlled_vehicles' = made.controlled
        /\ vehicle' = new_vehicle(config, lane)
        /\ previous_steering' = IF Extended THEN Zero ELSE None
        /\ previous_acceleration' = IF Extended THEN Zero ELSE None
        /\ last_call' = NoCall
        /\ ret' = [op |-> "reset"]

Reset ==
    /\ \E lane \in 0..(config.lanes_count - 1) : AfterReset(lane)
    /\ UNCHANGED <<cls, config>>

\* rewards(action)
Rewards ==
    \E action \in Actions(config) :
        \E r \in {rewards_call(cls, config, road, vehicle, action,
                               previous_steering, previous_acceleration)} :
            /\ previous_steering' = r.previous_steering
            /\ previous_acceleration' = r.previous_acceleration
            /\ last_call' = IF Extended THEN action ELSE last_call
            /\ ret' = [op |-> "rewards", action |-> action, rewards |-> r.rewards]
            /\ UNCHANGED <<cls, config, road, controlled_vehicles, vehicle>>

\* reward(action): _reward calls _rewards itself
Reward ==
    \E action \in Actions(config) :
        \E r \in {rewards_call(cls, config, road, vehicle, action,
                               previous_steering, previous_acceleration)} :
            /\ previous_steering' = r.previous_steering
            /\ previous_acceleration' = r.previous_acceleration
            /\ last_call' = IF Extended THEN action ELSE last_call
            /\ ret' = [op |-> "reward", action |-> action, locals |-> r.rewards,
                       reward |-> aggregate(cls, config, r.rewards)]
            /\ UNCHANGED <<cls, config, road, controlled_vehicles, vehicle>>

\* One step: the simulation advances, the components are computed, then the
\* aggregate, then termination
Step ==
    \E action \in Actions(config) :
        \E veh \in Advance(cls, vehicle, config.lanes_count) :
            \E r1 \in {rewards_call(cls, config, road, veh, action,
                                    previous_steering, previous_acceleration)} :
                \E r2 \in {rewards_call(cls, config, road, veh, action,
                                        r1.previous_steering, r1.previous_acceleration)} :
                    /\ vehicle' = veh
                    /\ previous_steering' = r2.previous_steering
                    /\ previous_acceleration' = r2.previous_acceleration
                    /\ last_call' = IF Extended THEN action ELSE last_call
                    /\ ret' = [op |-> "step", action |-> action, rewards |-> r1.rewards,
                               locals |-> r2.rewards,
                               reward |-> aggregate(cls, config, r2.rewards),
                               terminated |-> HighwayEnv_is_terminated(config, veh)]
                    /\ UNCHANGED <<cls, config, road, controlled_vehicles>>

\* is_terminated()
IsTerminated ==
    /\ ret' = [op |-> "is_terminated",
               terminated |-> HighwayEnv_is_terminated(config, vehicle)]
    /\ UNCHANGED <<cls, config, road, controlled_vehicles, vehicle,
                   previous_steering, previous_acceleration, last_call>>

\* lane_distance(vehicle), a method of DevHighway
LaneDistance ==
    /\ Extended
    /\ ret' = [op |-> "lane_distance", value |-> lane_distance(road, vehicle)]
    /\ UNCHANGED <<cls, config, road, controlled_vehicles, vehicle,
                   previous_steering, previous_acceleration, last_call>>

\* ----------------------------------------------------------- specifications
\* The state after construction is the state after a first reset
Constructed(c, cfg) ==
    /\ cls = c
    /\ config = cfg
    /\ \E lane \in 0..(cfg.lanes_count - 1) :
           LET made == create_vehicles(c, cfg)
           IN  /\ road = [ network  |-> straight_road_network(cfg.lanes_count),
                           vehicles |-> made.vehicles ]
               /\ controlled_vehicles = made.controlled
               /\ vehicle = new_vehicle(cfg, lane)
    /\ previous_steering = (IF c = "DevHighway" THEN Zero ELSE None)
    /\ previous_acceleration = (IF c = "DevHighway" THEN Zero ELSE None)
    /\ last_call = NoCall
    /\ ret = [op |-> "reset"]

\* Episodes of the base and the extended environment under the reward
\* configurations, one controlled vehicle
Init ==
    \E c \in {"HighwayEnv", "DevHighway"} :
        \E u \in RewardOverrides(c) :
            \E lanes \in 1..MaxLanes :
                Constructed(c, Update(Update(default_config(c), u),
                                      [ lanes_count         |-> lanes,
                                        vehicles_count      |-> MaxVehicles,
                                        controlled_vehicles |-> 1 ]))

Next == Reset \/ Step \/ Rewards \/ Reward \/ IsTerminated \/ LaneDistance

Spec == Init /\ [][Next]_vars

\* Scenario construction under every split of the background vehicles
ScenarioInit ==
    \E c \in Classes :
        \E lanes \in 1..MaxLanes :
            \E count \in 0..MaxVehicles :
                \E controlled \in 1..MaxControlled :
                    Constructed(c, Update(default_config(c),
                                          [ lanes_count         |-> lanes,
                                            vehicles_count      |-> count,
                                            controlled_vehicles |-> controlled ]))

ScenarioNext == Reset \/ IsTerminated \/ LaneDistance

ScenarioSpec == ScenarioInit /\ [][ScenarioNext]_vars

\* ------------------------------------------------------------------ claims
normalization_range(c, cfg) ==
    IF c = "DevHighway" THEN DevHighway_range(cfg) ELSE HighwayEnv_range(cfg)

\* The normalization range has two distinct ends, or is not used
NonDegenerate ==
    config.normalize_reward =>
        normalization_range(cls, config)[1] # normalization_range(cls, config)[2]

\* The latest operation evaluated the aggregate reward
Aggregated == ret.op \in {"reward", "step"}

\* The components the latest operation computed (those behind the aggregate,
\* when it computed one)
Components == IF ret.op = "rewards" THEN ret.rewards ELSE ret.locals

\* speed * cos(heading) of the controlled vehicle
forward_speed == RMul(vehicle.speed, Cos(vehicle.heading))

\* C1 as stated: whenever the vehicle is off-road, the aggregate reward of
\* either policy is exactly 0, for every configuration of the weights and
\* with normalize_reward true or false.
C1_OffRoadRewardIsZero ==
    (Aggregated /\ ~vehicle.on_road) => ret.reward = Zero

\* C1, amended: whenever the vehicle is off-road, the aggregate reward of
\* either policy is exactly 0, with normalize_reward false, or with it true
\* and a normalization range whose two ends differ.
C1_OffRoadRewardIsZeroInRange ==
    (Aggregated /\ ~vehicle.on_road /\ NonDegenerate) => ret.reward = Zero

\* An off-road, crashed vehicle of the extended policy under normalization:
\* the normalized sum is not 0 by itself, and the reward is 0
C1_Witness ==
    /\ Extended
    /\ ret.op = "reward"
    /\ ~vehicle.on_road
    /\ vehicle.crashed
    /\ config.normalize_reward
    /\ NonDegenerate
    /\ weighted_sum(config, ret.locals, DOMAIN ret.locals) # config.collision_reward
    /\ ret.reward = Zero

\* C2: with normalization and on the road, the worst case (crashed, the other
\* components at their minimum) has aggregate reward 0 and the best case (not
\* crashed, highest lane, forward speed at or above the top of
\* reward_speed_range and, in the extended policy, no lateral offset and an
\* action equal to the previous one) has aggregate reward 1, in both policies.
\* Stated for roads of two lanes or more and a range whose ends differ.
C2_BoundsMapToZeroAndOne ==
    (/\ Aggregated
     /\ config.normalize_reward
     /\ NonDegenerate
     /\ config.lanes_count >= 2
     /\ vehicle.on_road)
    => /\ (/\ vehicle.crashed
           /\ ret.locals.right_lane_reward = Zero
           /\ ret.locals.high_speed_reward = Zero)
          => ret.reward = Zero
       /\ (/\ ~vehicle.crashed
           /\ lane_of(vehicle) = config.lanes_count - 1
           /\ RLe(config.reward_speed_range[2], forward_speed)
           /\ Extended => /\ vehicle.lateral = Zero
                          /\ ret.locals.abrupt_steering_penalty = Zero
                          /\ ret.locals.abrupt_acceleration_penalty = Zero)
          => ret.reward = One

\* C3: in the extended policy every evaluation of the components reports
\* abrupt_steering_penalty = -weight * |steering - steering of the preceding
\* evaluation|, with 0 as the preceding steering for the first evaluation
\* after a reset; the same for abrupt_acceleration_penalty and the
\* acceleration.
C3_PenaltyFollowsPrecedingCall ==
    [][(Extended /\ ret'.op \in {"rewards", "reward", "step"}) =>
          LET reference == IF last_call = NoCall THEN <<Zero, Zero>> ELSE last_call
              got == IF ret'.op = "reward" THEN ret'.locals ELSE ret'.rewards
          IN  /\ got.abrupt_steering_penalty =
                    RNeg(RMul(config.abrupt_steering_penalty,
                              RAbs(RSub(ret'.action[2], reference[2]))))
              /\ got.abrupt_acceleration_penalty =
                    RNeg(RMul(config.abrupt_acceleration_penalty,
                              RAbs(RSub(ret'.action[1], reference[1]))))]_vars

\* Steering 0.5 evaluated right after an evaluation with steering 0.5: no penalty
C3_Witness ==
    /\ Extended
    /\ config.abrupt_steering_penalty # Zero
    /\ ret.op = "rewards"
    /\ ret.action[2] = Q(1, 2)
    /\ previous_steering = Q(1, 2)
    /\ ret.rewards.abrupt_steering_penalty = Zero

\* C4: is_terminated() is true exactly when the vehicle crashed, or
\* offroad_terminal is set and the vehicle is off the road; evaluating it
\* changes nothing of the environment.
C4_TerminatedIffCrashedOrOffroad ==
    /\ [](ret.op \in {"is_terminated", "step"} =>
            ret.terminated =
                (vehicle.crashed \/ (config.offroad_terminal /\ ~vehicle.on_road)))
    /\ [][ret'.op = "is_terminated" =>
            UNCHANGED <<cls, config, road, controlled_vehicles, vehicle,
                        previous_steering, previous_acceleration>>]_vars

\* Off the road without a collision, offroad_terminal set: terminated
C4_Witness ==
    /\ ret.op = "is_terminated"
    /\ ~vehicle.crashed
    /\ ~vehicle.on_road
    /\ config.offroad_terminal
    /\ ret.terminated

\* C5: lane_distance returns two sequences, the lane identifiers and the
\* distances, of equal length, with one entry per lane of the network.
C5_ReturnsIdentifiersAndDistances ==
    ret.op = "lane_distance" =>
        /\ Len(ret.value) = 2
        /\ Len(ret.value[1]) = Len(ret.value[2])
        /\ Len(ret.value[2]) = config.lanes_count

\* C6: the vehicles on the road are, for each of controlled_vehicles bins, one
\* controlled vehicle followed by that bin's background vehicles; the bin
\* sizes are naturals that sum to vehicles_count and differ by at most one, so
\* there are controlled_vehicles controlled and vehicles_count background
\* vehicles, and controlled_vehicles lists the controlled ones in order.
BinSize(k) ==
    (IF k < Len(controlled_vehicles) THEN controlled_vehicles[k + 1]
     ELSE Len(road.vehicles) + 1) - controlled_vehicles[k] - 1

C6_NearEqualPartition ==
    LET n == Len(controlled_vehicles)
        positions == {controlled_vehicles[k] : k \in 1..n}
    IN  /\ n = config.controlled_vehicles
        /\ \A k \in 1..(n - 1) : controlled_vehicles[k] < controlled_vehicles[k + 1]
        /\ n > 0 => controlled_vehicles[1] = 1
        /\ \A p \in 1..Len(road.vehicles) :
              road.vehicles[p].kind = (IF p \in positions THEN "controlled" ELSE "other")
        /\ Len(road.vehicles) = config.controlled_vehicles + config.vehicles_count
        /\ \A k \in 1..n : BinSize(k) >= 0
        /\ \A j, k \in 1..n : BinSize(j) - BinSize(k) <= 1

\* Four background vehicles over three controlled ones: bins of 2, 1 and 1
C6_Witness ==
    /\ config.vehicles_count = 4
    /\ config.controlled_vehicles = 3
    /\ controlled_vehicles = <<1, 4, 6>>
    /\ Len(road.vehicles) = 7

\* C7: right_lane_reward is lane_number / max(lanes - 1, 1), with the lane
\* number of target_lane_index for a ControlledVehicle and of lane_index
\* otherwise; it lies in [0, 1] and is 0 on a road of one lane.
C7_RightLaneRewardInUnitInterval ==
    ret.op \in {"rewards", "reward", "step"} =>
        LET lane == IF vehicle.class = "ControlledVehicle"
                    THEN vehicle.target_lane_index[3] ELSE vehicle.lane_index[3]
            got == IF ret.op = "reward" THEN ret.locals ELSE ret.rewards
        IN  /\ got.right_lane_reward = Q(lane, Max(config.lanes_count - 1, 1))
            /\ RLe(Zero, got.right_lane_reward)
            /\ RLe(got.right_lane_reward, One)
            /\ config.lanes_count = 1 => got.right_lane_reward = Zero

\* A ControlledVehicle on lane 0 that targets the rightmost lane: reward 1
C7_Witness ==
    /\ ret.op = "rewards"
    /\ vehicle.class = "ControlledVehicle"
    /\ vehicle.lane_index[3] = 0
    /\ vehicle.target_lane_index[3] = config.lanes_count - 1
    /\ ret.rewards.right_lane_reward = One

\* C8: within one step of the extended policy the components and the
\* aggregate are evaluated against the same reference, the previous step's
\* action: both evaluations report the same abrupt_steering_penalty and the
\* same abrupt_acceleration_penalty.
C8_OneReferencePerStep ==
    (Extended /\ ret.op = "step") =>
        /\ ret.rewards.abrupt_steering_penalty = ret.locals.abrupt_steering_penalty
        /\ ret.rewards.abrupt_acceleration_penalty =
               ret.locals.abrupt_acceleration_penalty

\* The weights have the default signs
DefaultSigns ==
    /\ RLe(config.collision_reward, Zero)
    /\ \A name \in (DOMAIN Components) \ {"collision_reward"} :
           RLe(Zero, ConfigGet(config, name))

\* C9: with normalization and weights of the default signs the aggregate
\* reward lies in [0, 1] in every state of an episode, in both policies.
\* Stated for a normalization range whose ends differ.
C9_NormalizedRewardInUnitInterval ==
    (Aggregated /\ config.normalize_reward /\ NonDegenerate /\ DefaultSigns) =>
        /\ RLe(Zero, ret.reward)
        /\ RLe(ret.reward, One)

\* The configuration is the class's default one (the road and the vehicle
\* counts aside)
IsDefaultConfig ==
    \A k \in DOMAIN default_config(cls) : config[k] = default_config(cls)[k]

\* The aggregate the latest evaluation would have given had the vehicle been
\* crashed, or not, everything else equal
RewardIfCrashed(crashed) ==
    LET twin == [vehicle EXCEPT !.crashed = crashed]
        collision == rewards_call(cls, config, road, twin, ret.action,
                                  Zero, Zero).rewards.collision_reward
    IN  aggregate(cls, config, [ret.locals EXCEPT !.collision_reward = collision])

\* C10: under the default configuration of either policy, of two on-road
\* states that differ only in the crashed flag the crashed one has the smaller
\* or equal aggregate reward.
C10_CollisionNeverPays ==
    (Aggregated /\ IsDefaultConfig /\ vehicle.on_road) =>
        RLe(RewardIfCrashed(TRUE), RewardIfCrashed(FALSE))

====
